---- MODULE Spec2Model ----
(***************************************************************************)
(* A model of yt_transcripter.py: the command line tool that extracts the  *)
(* video identifier from a URL, asks the transcript provider for the       *)
(* tracks of the video, fetches one track, formats it as plain text or as  *)
(* SRT, optionally cleans the text, and prints or saves the result.        *)
(*                                                                         *)
(* Python strings are sequences of one-character strings, so the regular   *)
(* expressions of the source are modelled by what they match, character by *)
(* character.  Times are integer milliseconds (the source holds seconds as *)
(* floats).                                                                *)
(***************************************************************************)
EXTENDS Integers, Sequences, FiniteSets, TLC

VARIABLES
    args,          \* argparse namespace: url, timestamps, save, lang, format, clean
    provider,      \* the responses of the network: track listings, title page
    pc,            \* position of main
    video_id,      \* main: video_id
    available,     \* main: available
    languages,     \* main: languages
    transcript,    \* main: transcript
    output_text,   \* main: output_text
    extension,     \* main: extension
    cleaned_text,  \* main: cleaned_text
    title,         \* main: title
    stdout,        \* lines printed by this run
    files,         \* files opened for writing by this run, in order
    calls,         \* network calls made by this run, in order
    run,           \* 1 for the first invocation, 2 for the second
    prev,          \* what the first invocation left behind
    text,          \* the string handed to the cleaner
    passes         \* the results of successive cleaning passes

vars == <<args, provider, pc, video_id, available, languages, transcript,
          output_text, extension, cleaned_text, title, stdout, files, calls,
          run, prev, text, passes>>

mainVars == <<args, provider, pc, video_id, available, languages, transcript,
              output_text, extension, cleaned_text, title, stdout, files,
              calls, run, prev>>

-----------------------------------------------------------------------------
(* Characters and strings                                                  *)

Digits == <<"0", "1", "2", "3", "4", "5", "6", "7", "8", "9">>

Lowers == <<"a", "b", "c", "d", "e", "f", "g", "h", "i", "j", "k", "l", "m",
            "n", "o", "p", "q", "r", "s", "t", "u", "v", "w", "x", "y", "z">>

Uppers == <<"A", "B", "C", "D", "E", "F", "G", "H", "I", "J", "K", "L", "M",
            "N", "O", "P", "Q", "R", "S", "T", "U", "V", "W", "X", "Y", "Z">>

Range(s) == {s[i] : i \in DOMAIN s}

\* \w of the regular expressions
WordChars == Range(Digits) \cup Range(Lowers) \cup Range(Uppers) \cup {"_"}

\* \s of the regular expressions (the whitespace the model's strings hold)
SpaceChars == {" ", "\n"}

\* str.upper() and the case folding of re.IGNORECASE, on one character
Upper(c) ==
    IF c \in Range(Lowers)
    THEN Uppers[CHOOSE i \in DOMAIN Lowers : Lowers[i] = c]
    ELSE c

Lower(c) ==
    IF c \in Range(Uppers)
    THEN Lowers[CHOOSE i \in DOMAIN Uppers : Uppers[i] = c]
    ELSE c

LowerStr(s) == [i \in DOMAIN s |-> Lower(s[i])]

\* s[i:] starts with p
StartsAt(s, i, p) ==
    /\ i >= 1
    /\ i + Len(p) - 1 <= Len(s)
    /\ \A k \in 1..Len(p) : s[i + k - 1] = p[k]

\* p in s
Contains(s, p) == \E i \in 1..(Len(s) + 1) : StartsAt(s, i, p)

\* str.find(p, from): the least index >= from where p starts, 0 when none
Find(s, p, from) ==
    LET hits == {i \in from..Len(s) : StartsAt(s, i, p)}
    IN IF hits = {} THEN 0 ELSE CHOOSE i \in hits : \A j \in hits : i <= j

Tail0(s, i) == SubSeq(s, i, Len(s))

RECURSIVE Concat(_)
Concat(ss) == IF ss = <<>> THEN <<>> ELSE Head(ss) \o Concat(Tail(ss))

\* sep.join(lines)
RECURSIVE Join(_, _)
Join(sep, lines) ==
    IF lines = <<>> THEN <<>>
    ELSE IF Len(lines) = 1 THEN lines[1]
    ELSE lines[1] \o sep \o Join(sep, Tail(lines))

\* str(n) for n >= 0
RECURSIVE Decimal(_)
Decimal(n) ==
    IF n < 10 THEN <<Digits[n + 1]>>
    ELSE Decimal(n \div 10) \o <<Digits[(n % 10) + 1]>>

\* f"{n:0w}": zero padded to at least w digits
RECURSIVE ZeroPad(_, _)
ZeroPad(n, w) ==
    LET d == Decimal(n)
    IN IF Len(d) >= w THEN d ELSE [i \in 1..(w - Len(d)) |-> "0"] \o d

-----------------------------------------------------------------------------
(* Utility functions                                                       *)

ID_LEN == 11

IdChars == WordChars \cup {"-"}

\* where the identifier starts when (?:v=|\/) matches at i, 0 when it does not
IdStart(url, i) ==
    IF StartsAt(url, i, <<"v", "=">>) THEN i + 2
    ELSE IF StartsAt(url, i, <<"/">>) THEN i + 1
    ELSE 0

PatternAt(url, i) ==
    LET j == IdStart(url, i)
    IN /\ j > 0
       /\ j + ID_LEN - 1 <= Len(url)
       /\ \A k \in j..(j + ID_LEN - 1) : url[k] \in IdChars

\* extract_video_id with one pattern per separator, tried in turn: a match
\* after "v=" anywhere wins over a match after "/"
extract_video_id_v_first(url) ==
    LET hits == {i \in 1..Len(url) : PatternAt(url, i)}
        vhits == {i \in hits : url[i] = "v"}
        pick(S) == CHOOSE i \in S : \A j \in S : i <= j
    IN IF hits = {}
       THEN [raised |-> TRUE, value |-> <<>>]
       ELSE LET i == IF vhits # {} THEN pick(vhits) ELSE pick(hits)
                j == IdStart(url, i)
            IN [raised |-> FALSE, value |-> SubSeq(url, j, j + ID_LEN - 1)]

\* re.search returns the leftmost match; no match raises ValueError
extract_video_id(url) ==
    LET hits == {i \in 1..Len(url) : PatternAt(url, i)}
    IN IF hits = {}
       THEN [raised |-> TRUE, value |-> <<>>]
       ELSE LET i == CHOOSE i \in hits : \A j \in hits : i <= j
                j == IdStart(url, i)
            IN [raised |-> FALSE, value |-> SubSeq(url, j, j + ID_LEN - 1)]

IllegalChars == {"\\", "/", "*", "?", ":", "\"", "<", ">", "|"}

sanitize_filename(name) == SelectSeq(name, LAMBDA c : c \notin IllegalChars)

\* str.replace(old, new): every occurrence, left to right, not overlapping
RECURSIVE Replace(_, _, _)
Replace(s, old, new) ==
    IF s = <<>> THEN <<>>
    ELSE IF StartsAt(s, 1, old)
         THEN new \o Replace(Tail0(s, Len(old) + 1), old, new)
         ELSE <<Head(s)>> \o Replace(Tail(s), old, new)

\* str.strip()
Strip(s) ==
    LET keep == {i \in DOMAIN s : s[i] \notin SpaceChars}
    IN IF keep = {} THEN <<>>
       ELSE SubSeq(s, CHOOSE i \in keep : \A j \in keep : i <= j,
                      CHOOSE i \in keep : \A j \in keep : i >= j)

TitleOpen == <<"<", "t", "i", "t", "l", "e", ">">>

TitleClose == <<"<", "/", "t", "i", "t", "l", "e", ">">>

YouTubeSuffix == <<" ", "-", " ", "Y", "o", "u", "T", "u", "b", "e">>

\* where <title>(.*?)</title> matches from i: the nearest closing tag, with
\* no newline before it ("." does not match a newline); 0 when it does not
TitleEnd(html, i) ==
    IF ~StartsAt(html, i, TitleOpen) THEN 0
    ELSE LET e == Find(html, TitleClose, i + Len(TitleOpen))
         IN IF e > 0 /\ \A k \in (i + Len(TitleOpen))..(e - 1) : html[k] # "\n"
            THEN e ELSE 0

\* get_video_title after requests.get has answered with the page `html`
title_of_page(html, vid) ==
    LET hits == {i \in 1..Len(html) : TitleEnd(html, i) > 0}
    IN IF hits = {} THEN vid
       ELSE LET i == CHOOSE i \in hits : \A j \in hits : i <= j
                g == SubSeq(html, i + Len(TitleOpen), TitleEnd(html, i) - 1)
            IN sanitize_filename(Strip(Replace(g, YouTubeSuffix, <<>>)))

\* requests.get raises when the request fails, and nothing here catches it
get_video_title(vid, page) ==
    IF page.raised
    THEN [raised |-> TRUE, value |-> <<>>]
    ELSE [raised |-> FALSE, value |-> title_of_page(page.text, vid)]

build_safe_filename(t, vid, ext, cleaned) ==
    LET base == t \o <<" ", "(">> \o vid \o <<")">>
    IN IF cleaned
       THEN base \o <<"_", "c", "l", "e", "a", "n", "e", "d", ".">> \o ext
       ELSE base \o <<".">> \o ext

\* the arguments are milliseconds: seconds // 3600 is ms \div 3600000, ...
format_timestamp_srt(ms) ==
    LET hours == ms \div 3600000
        minutes == (ms % 3600000) \div 60000
        secs == (ms % 60000) \div 1000
        millis == ms % 1000
    IN ZeroPad(hours, 2) \o <<":">> \o ZeroPad(minutes, 2) \o <<":">>
       \o ZeroPad(secs, 2) \o <<",">> \o ZeroPad(millis, 3)

format_timestamp_txt(ms) ==
    LET hours == ms \div 3600000
        minutes == (ms % 3600000) \div 60000
        secs == (ms % 60000) \div 1000
    IN ZeroPad(hours, 2) \o <<":">> \o ZeroPad(minutes, 2) \o <<":">>
       \o ZeroPad(secs, 2)

-----------------------------------------------------------------------------
(* Formatting output                                                       *)

format_as_txt(segs, keep_timestamps) ==
    Join(<<"\n">>,
         [i \in DOMAIN segs |->
            IF keep_timestamps
            THEN <<"[">> \o format_timestamp_txt(segs[i].start) \o <<"]", " ">>
                 \o segs[i].text
            ELSE segs[i].text])

Arrow == <<" ", "-", "-", ">", " ">>

\* the lines of a cue whose end time leaves the duration out
srt_lines_without_duration(i, item) ==
    << Decimal(i),
       format_timestamp_srt(item.start) \o Arrow
         \o format_timestamp_srt(item.start),
       item.text,
       <<>> >>

\* the four lines appended for the i-th item (enumerate starts at 1)
srt_lines_of(i, item) ==
    << Decimal(i),
       format_timestamp_srt(item.start) \o Arrow
         \o format_timestamp_srt(item.start + item.duration),
       item.text,
       <<>> >>

format_as_srt(segs) ==
    Join(<<"\n">>, Concat([i \in DOMAIN segs |-> srt_lines_of(i, segs[i])]))

-----------------------------------------------------------------------------
(* Cleaning logic                                                          *)

\* \b before position i of s: a word character with no word character before
WordStart(s, i) ==
    /\ i <= Len(s)
    /\ s[i] \in WordChars
    /\ (i = 1 \/ s[i - 1] \notin WordChars)

\* \b after position e of s: a word character with no word character after
WordEnd(s, e) ==
    /\ e >= 1
    /\ e <= Len(s)
    /\ s[e] \in WordChars
    /\ (e = Len(s) \/ s[e + 1] \notin WordChars)

\* the index of the "]" closing \[.*?\] for a "[" at the head of s, 0 if none
BracketClose(s) ==
    LET e == Find(s, <<"]">>, 2)
    IN IF e > 0 /\ \A k \in 2..(e - 1) : s[k] # "\n" THEN e ELSE 0

\* re.sub(r"\[.*?\]", "", s)
RECURSIVE remove_brackets(_)
remove_brackets(s) ==
    IF s = <<>> THEN <<>>
    ELSE IF Head(s) = "[" /\ BracketClose(s) > 0
         THEN remove_brackets(Tail0(s, BracketClose(s) + 1))
         ELSE <<Head(s)>> \o remove_brackets(Tail(s))

Fillers == { <<"u", "h">>, <<"u", "m">>, <<"e", "r", "m">>, <<"a", "h">>,
             <<"l", "i", "k", "e">> }

\* the length of the filler word \b(uh|um|erm|ah|like)\b matches at i, 0 if none
FillerAt(s, i) ==
    LET fs == {f \in Fillers :
                 /\ WordStart(s, i)
                 /\ StartsAt(LowerStr(s), i, f)
                 /\ WordEnd(s, i + Len(f) - 1)}
    IN IF fs = {} THEN 0 ELSE Len(CHOOSE f \in fs : TRUE)

\* re.sub(r"\b(uh|um|erm|ah|like)\b", "", s, flags=re.IGNORECASE), from i on
RECURSIVE remove_fillers_from(_, _)
remove_fillers_from(s, i) ==
    IF i > Len(s) THEN <<>>
    ELSE IF FillerAt(s, i) > 0
         THEN remove_fillers_from(s, i + FillerAt(s, i))
         ELSE <<s[i]>> \o remove_fillers_from(s, i + 1)

remove_fillers(s) == remove_fillers_from(s, 1)

\* the last index of the run of characters of set cs that starts at i
RECURSIVE RunEnd(_, _, _)
RunEnd(s, i, cs) ==
    IF i + 1 <= Len(s) /\ s[i + 1] \in cs THEN RunEnd(s, i + 1, cs) ELSE i

\* the last index of what \b(\w+)\s+\1\b matches at i, 0 when it does not:
\* a whole word, whitespace, and the same word again (case folded)
DuplicateEnd(s, i) ==
    IF ~WordStart(s, i) THEN 0
    ELSE LET e == RunEnd(s, i, WordChars)
             w == SubSeq(s, i, e)
         IN IF ~(e + 1 <= Len(s) /\ s[e + 1] \in SpaceChars) THEN 0
            ELSE LET m == RunEnd(s, e + 1, SpaceChars)
                 IN IF /\ StartsAt(LowerStr(s), m + 1, LowerStr(w))
                       /\ WordEnd(s, m + Len(w))
                    THEN m + Len(w) ELSE 0

\* re.sub(r"\b(\w+)\s+\1\b", r"\1", s, flags=re.IGNORECASE), from i on: the
\* scan resumes after the match, so the word kept is not looked at again
RECURSIVE collapse_duplicates_from(_, _)
collapse_duplicates_from(s, i) ==
    IF i > Len(s) THEN <<>>
    ELSE IF DuplicateEnd(s, i) > 0
         THEN SubSeq(s, i, RunEnd(s, i, WordChars))
              \o collapse_duplicates_from(s, DuplicateEnd(s, i) + 1)
         ELSE <<s[i]>> \o collapse_duplicates_from(s, i + 1)

collapse_duplicates(s) == collapse_duplicates_from(s, 1)

\* re.sub(r"\s+", " ", s)
RECURSIVE collapse_spaces(_)
collapse_spaces(s) ==
    IF s = <<>> THEN <<>>
    ELSE IF Head(s) \in SpaceChars
         THEN <<" ">> \o collapse_spaces(Tail0(s, RunEnd(s, 1, SpaceChars) + 1))
         ELSE <<Head(s)>> \o collapse_spaces(Tail(s))

capitalize_first(s) == IF s = <<>> THEN s ELSE <<Upper(s[1])>> \o Tail(s)

clean_transcript_text(s) ==
    LET t1 == remove_brackets(s)
        t2 == remove_fillers(t1)
        t3 == collapse_duplicates(t2)
        t4 == Replace(t3, <<"\n">>, <<" ">>)
        t5 == collapse_spaces(t4)
        t6 == Strip(t5)
    IN capitalize_first(t6)

-----------------------------------------------------------------------------
(* Transcript fetching                                                     *)

\* Python's None, for a transcript and for a text
NoTranscript == [is_none |-> TRUE, segments |-> <<>>]

NoText == [is_none |-> TRUE, text |-> <<>>]

\* "if x:" is false for None and for what has length 0
Truthy(t) == ~t.is_none /\ Len(t.segments) > 0

TruthyText(t) == ~t.is_none /\ Len(t.text) > 0

Msg(m, a) == [msg |-> m, args |-> a]

Call(op, i) == [op |-> op, index |-> i]

\* the first index a loop over the list reaches among `hits`, 0 if none
First(hits) ==
    IF hits = {} THEN 0 ELSE CHOOSE i \in hits : \A j \in hits : i <= j

\* the selector with its first two loops exchanged: manual tracks first
smart_choice_manual_first(tracks) ==
    LET english == First({i \in DOMAIN tracks :
                            Contains(tracks[i].language_code, <<"e", "n">>)})
        manual == First({i \in DOMAIN tracks : ~tracks[i].is_generated})
        generated == First({i \in DOMAIN tracks : tracks[i].is_generated})
    IN IF manual > 0 THEN manual
       ELSE IF english > 0 THEN english
       ELSE generated

\* the three loops of fetch_smart_transcript: the track whose fetch() is
\* called, 0 when no loop returns
smart_choice(tracks) ==
    LET english == First({i \in DOMAIN tracks :
                            Contains(tracks[i].language_code, <<"e", "n">>)})
        manual == First({i \in DOMAIN tracks : ~tracks[i].is_generated})
        generated == First({i \in DOMAIN tracks : tracks[i].is_generated})
    IN IF english > 0 THEN english
       ELSE IF manual > 0 THEN manual
       ELSE generated

\* fetch_smart_transcript that goes on to the other tracks when the fetch of
\* the chosen one fails
fetch_smart_fallback(listing) ==
    IF listing.raised
    THEN [value |-> NoTranscript, out |-> <<Msg("Error: {e}", <<>>)>>,
          calls |-> <<Call("list", 0)>>]
    ELSE LET ts == listing.tracks
             i == smart_choice(ts)
             ok == {j \in DOMAIN ts : ~ts[j].fetch.raised}
             j == IF i \in ok THEN i ELSE CHOOSE j \in ok : \A k \in ok : j <= k
         IN IF i = 0
            THEN [value |-> NoTranscript, out |-> <<>>,
                  calls |-> <<Call("list", 0)>>]
            ELSE IF ok = {}
            THEN [value |-> NoTranscript, out |-> <<Msg("Error: {e}", <<>>)>>,
                  calls |-> <<Call("list", 0), Call("fetch", i)>>]
            ELSE [value |-> [is_none |-> FALSE, segments |-> ts[j].fetch.segments],
                  out |-> <<>>,
                  calls |-> IF i = j THEN <<Call("list", 0), Call("fetch", i)>>
                            ELSE <<Call("list", 0), Call("fetch", i),
                                   Call("fetch", j)>>]

\* fetch_smart_transcript, against a listing of the provider: what it
\* returns, what it prints and the network calls it makes.  An exception of
\* list() or of the one fetch() is printed and None returned.
fetch_smart_transcript(listing) ==
    IF listing.raised
    THEN [value |-> NoTranscript, out |-> <<Msg("Error: {e}", <<>>)>>,
          calls |-> <<Call("list", 0)>>]
    ELSE LET i == smart_choice(listing.tracks)
         IN IF i = 0
            THEN [value |-> NoTranscript, out |-> <<>>,
                  calls |-> <<Call("list", 0)>>]
            ELSE IF listing.tracks[i].fetch.raised
            THEN [value |-> NoTranscript, out |-> <<Msg("Error: {e}", <<>>)>>,
                  calls |-> <<Call("list", 0), Call("fetch", i)>>]
            ELSE [value |-> [is_none |-> FALSE,
                             segments |-> listing.tracks[i].fetch.segments],
                  out |-> <<>>,
                  calls |-> <<Call("list", 0), Call("fetch", i)>>]

\* get_available_transcripts, against a listing of the provider
get_available_transcripts(listing) ==
    IF listing.raised
    THEN [value |-> <<>>,
          out |-> <<Msg("Error listing transcripts: {e}", <<>>)>>]
    ELSE [value |-> [i \in DOMAIN listing.tracks |->
                       [language |-> listing.tracks[i].language,
                        language_code |-> listing.tracks[i].language_code,
                        is_generated |-> listing.tracks[i].is_generated]],
          out |-> <<>>]

\* str.split(",")
RECURSIVE Split(_)
Split(s) ==
    LET c == Find(s, <<",">>, 1)
    IN IF c = 0 THEN <<s>>
       ELSE <<SubSeq(s, 1, c - 1)>> \o Split(Tail0(s, c + 1))

parse_languages(lang) == [i \in DOMAIN Split(lang) |-> Strip(Split(lang)[i])]

BoolStr(b) == IF b THEN <<"T", "r", "u", "e">> ELSE <<"F", "a", "l", "s", "e">>

-----------------------------------------------------------------------------
(* Main CLI                                                                *)

TXT == <<"t", "x", "t">>

SRT == <<"s", "r", "t">>

\* the provider answers the k-th list() of a run with its k-th listing
ListCalls(cs) == Len(SelectSeq(cs, LAMBDA c : c.op = "list"))

NextListing == provider.list[ListCalls(calls) + 1]

\* fetch_smart_transcript with a second try: a failed fetch() is repeated once
fetch_smart_retry(listing) ==
    LET r == fetch_smart_transcript(listing)
    IN IF Len(r.calls) = 2 /\ r.value.is_none
       THEN [r EXCEPT !.calls = r.calls \o <<r.calls[2]>>]
       ELSE r

\* fetch_transcript(video_id, languages), the call line 266 comments out: the
\* first of the requested codes that a track has, manual tracks first
fetch_by_language(listing) ==
    IF listing.raised
    THEN [value |-> NoTranscript,
          out |-> <<Msg("Error fetching transcript: {e}", <<>>)>>,
          calls |-> <<Call("list", 0)>>]
    ELSE LET ts == listing.tracks
             rank(i) == IF ts[i].is_generated THEN Len(ts) + i ELSE i
             found == {c \in DOMAIN languages :
                         \E i \in DOMAIN ts : ts[i].language_code = languages[c]}
         IN IF found = {}
            THEN [value |-> NoTranscript,
                  out |-> <<Msg("No transcript found for languages: {languages}",
                                languages)>>,
                  calls |-> <<Call("list", 0)>>]
            ELSE LET c == CHOOSE c \in found : \A d \in found : c <= d
                     is == {i \in DOMAIN ts : ts[i].language_code = languages[c]}
                     i == CHOOSE i \in is : \A j \in is : rank(i) <= rank(j)
                 IN IF ts[i].fetch.raised
                    THEN [value |-> NoTranscript,
                          out |-> <<Msg("Error fetching transcript: {e}", <<>>)>>,
                          calls |-> <<Call("list", 0), Call("fetch", i)>>]
                    ELSE [value |-> [is_none |-> FALSE,
                                     segments |-> ts[i].fetch.segments],
                          out |-> <<>>,
                          calls |-> <<Call("list", 0), Call("fetch", i)>>]

\* line 267 of main: the transcript comes from the heuristic selector; the
\* languages of --lang are not handed to it
main_fetch(listing) == fetch_smart_transcript(listing)

\* main without the early return of lines 269-271
after_fetch_no_return(t) == IF args.save THEN "title" ELSE "print"

\* lines 269-271 and 284: where main goes once it holds the transcript
after_fetch(t) ==
    IF ~Truthy(t) THEN "done"
    ELSE IF args.save THEN "title" ELSE "print"

\* lines 250-254: the identifier, or the message of the ValueError and return
ParseUrl ==
    /\ pc = "start"
    /\ LET r == extract_video_id(args.url)
       IN IF r.raised
          THEN /\ stdout' = Append(stdout,
                      Msg("Could not extract video ID from URL", <<>>))
               /\ pc' = "done"
               /\ UNCHANGED video_id
          ELSE /\ video_id' = r.value
               /\ pc' = "list"
               /\ UNCHANGED stdout
    /\ UNCHANGED <<args, provider, available, languages, transcript,
                   output_text, extension, cleaned_text, title, files, calls,
                   run, prev, text, passes>>

\* lines 256-264: the listing that is printed, and the parsing of --lang
ListTracks ==
    /\ pc = "list"
    /\ LET r == get_available_transcripts(NextListing)
       IN /\ available' = r.value
          /\ stdout' = stdout \o r.out
                \o <<Msg("Available subtitles:", <<>>)>>
                \o [i \in DOMAIN r.value |->
                      Msg("- {language} ({language_code}) | Auto: {is_generated}",
                          <<r.value[i].language, r.value[i].language_code,
                            BoolStr(r.value[i].is_generated)>>)]
                \o <<Msg("Fetching transcript for video: {video_id}",
                         <<video_id>>)>>
    /\ calls' = Append(calls, Call("list", 0))
    /\ languages' = parse_languages(args.lang)
    /\ pc' = "fetch"
    /\ UNCHANGED <<args, provider, video_id, transcript, output_text,
                   extension, cleaned_text, title, files, run, prev, text,
                   passes>>

\* lines 267-282: the transcript, the early return without one, the
\* formatting and the cleaning
FetchTranscript ==
    /\ pc = "fetch"
    /\ LET r == main_fetch(NextListing)
       IN /\ transcript' = r.value
          /\ calls' = calls \o r.calls
          /\ pc' = after_fetch(r.value)
          /\ IF ~Truthy(r.value)
             THEN /\ stdout' = stdout \o r.out
                       \o <<Msg("No subtitles/transcript available.", <<>>)>>
                  /\ UNCHANGED <<output_text, extension, cleaned_text>>
             ELSE /\ stdout' = stdout \o r.out
                  /\ output_text' =
                       IF args.format = "txt"
                       THEN format_as_txt(r.value.segments, args.timestamps)
                       ELSE format_as_srt(r.value.segments)
                  /\ extension' = IF args.format = "txt" THEN TXT ELSE SRT
                  /\ cleaned_text' =
                       IF args.clean /\ args.format = "txt"
                       THEN [is_none |-> FALSE,
                             text |-> clean_transcript_text(
                                 format_as_txt(r.value.segments, args.timestamps))]
                       ELSE NoText
    /\ UNCHANGED <<args, provider, video_id, available, languages, title,
                   files, run, prev, text, passes>>

\* line 285: the title request; its exception leaves main
GetTitle ==
    /\ pc = "title"
    /\ calls' = Append(calls, Call("title", 0))
    /\ LET r == get_video_title(video_id, provider.page)
       IN IF r.raised
          THEN pc' = "crashed" /\ UNCHANGED title
          ELSE pc' = "write_original" /\ title' = r.value
    /\ UNCHANGED <<args, provider, video_id, available, languages, transcript,
                   output_text, extension, cleaned_text, stdout, files, run,
                   prev, text, passes>>

\* lines 287-290
WriteOriginal ==
    /\ pc = "write_original"
    /\ LET original_filename ==
               build_safe_filename(title, video_id, extension, FALSE)
       IN /\ files' = Append(files, [name |-> original_filename,
                                     content |-> output_text])
          /\ stdout' = Append(stdout, Msg("Saved original to: {original_filename}",
                                          <<original_filename>>))
    /\ pc' = IF TruthyText(cleaned_text) THEN "write_cleaned" ELSE "done"
    /\ UNCHANGED <<args, provider, video_id, available, languages, transcript,
                   output_text, extension, cleaned_text, title, calls, run,
                   prev, text, passes>>

\* lines 292-296
WriteCleaned ==
    /\ pc = "write_cleaned"
    /\ LET cleaned_filename == build_safe_filename(title, video_id, TXT, TRUE)
       IN /\ files' = Append(files, [name |-> cleaned_filename,
                                     content |-> cleaned_text.text])
          /\ stdout' = Append(stdout,
                 Msg("Saved cleaned version to: {cleaned_filename}",
                     <<cleaned_filename>>))
    /\ pc' = "done"
    /\ UNCHANGED <<args, provider, video_id, available, languages, transcript,
                   output_text, extension, cleaned_text, title, calls, run,
                   prev, text, passes>>

\* lines 298-304
PrintResults ==
    /\ pc = "print"
    /\ stdout' = stdout
          \o (IF TruthyText(cleaned_text)
              THEN <<Msg("===== CLEANED TRANSCRIPT =====", <<>>),
                     Msg("{cleaned_text}", <<cleaned_text.text>>)>>
              ELSE <<>>)
          \o <<Msg("===== ORIGINAL TRANSCRIPT =====", <<>>),
               Msg("{output_text}", <<output_text>>)>>
    /\ pc' = "done"
    /\ UNCHANGED <<args, provider, video_id, available, languages, transcript,
                   output_text, extension, cleaned_text, title, files, calls,
                   run, prev, text, passes>>

\* lines 307-308, a second time: main is invoked again with another --lang
\* and nothing else changed, against the same responses of the network
Langs == { <<"e", "n">>, <<"f", "r", ",", " ", "d", "e">> }

Rerun ==
    /\ pc \in {"done", "crashed"}
    /\ run = 1
    /\ run' = 2
    /\ prev' = [pc |-> pc, stdout |-> stdout, files |-> files, calls |-> calls]
    /\ \E l \in Langs \ {args.lang} : args' = [args EXCEPT !.lang = l]
    /\ pc' = "start"
    /\ video_id' = <<>>
    /\ available' = <<>>
    /\ languages' = <<>>
    /\ transcript' = NoTranscript
    /\ output_text' = <<>>
    /\ extension' = <<>>
    /\ cleaned_text' = NoText
    /\ title' = <<>>
    /\ stdout' = <<>>
    /\ files' = <<>>
    /\ calls' = <<>>
    /\ UNCHANGED <<provider, text, passes>>

Next ==
    \/ ParseUrl
    \/ ListTracks
    \/ FetchTranscript
    \/ GetTitle
    \/ WriteOriginal
    \/ WriteCleaned
    \/ PrintResults
    \/ Rerun

-----------------------------------------------------------------------------
(* Inputs: command lines and responses of the network                      *)

VideoId == <<"d", "Q", "w", "4", "w", "9", "W", "g", "X", "c", "Q">>

WatchUrl == <<"/", "w", "a", "t", "c", "h", "?", "v", "=">> \o VideoId

BadUrl == <<"y", "o", "u", "t", "u", ".", "b", "e", "/">>

Seg(s, d, t) == [start |-> s, duration |-> d, text |-> t]

Hi == <<Seg(0, 2000, <<"H", "i">>), Seg(2000, 3000, <<"t", "h", "e", "r", "e">>)>>

Music == <<Seg(1500, 2250, <<"[", "M", "u", "s", "i", "c", "]">>)>>

Oui == <<Seg(0, 1000, <<"o", "u", "i">>)>>

FetchOk(segs) == [raised |-> FALSE, segments |-> segs]

FetchFails == [raised |-> TRUE, segments |-> <<>>]

Track(l, c, g, f) ==
    [language |-> l, language_code |-> c, is_generated |-> g, fetch |-> f]

French(g, f) == Track(<<"F", "r", "e", "n", "c", "h">>, <<"f", "r">>, g, f)

English(g, f) ==
    Track(<<"E", "n", "g", "l", "i", "s", "h">>, <<"e", "n", "-", "U", "S">>, g, f)

German(g, f) == Track(<<"G", "e", "r", "m", "a", "n">>, <<"d", "e">>, g, f)

Listed(tracks) == [raised |-> FALSE, tracks |-> tracks]

ListFails == [raised |-> TRUE, tracks |-> <<>>]

PageFails == [raised |-> TRUE, text |-> <<>>]

Page(html) == [raised |-> FALSE, text |-> html]

NoTitlePage == Page(<<"<", "h", "t", "m", "l", ">">>)

TitlePage ==
    Page(TitleOpen \o <<"M", "y", ":", " ", "V", "i", "d", "e", "o">>
         \o YouTubeSuffix \o TitleClose)

\* the default of --lang
DefaultLang == { <<"e", "n">> }

AllFlags ==
    [timestamps : BOOLEAN, save : BOOLEAN, format : {"txt", "srt"},
     clean : BOOLEAN]

\* the state before main runs, for a choice of command lines and responses
MainInit(urls, flags, langs, listings1, listings2, pages) ==
    /\ \E u \in urls, f \in flags, l \in langs :
         args = [url |-> u, timestamps |-> f.timestamps, save |-> f.save,
                 lang |-> l, format |-> f.format, clean |-> f.clean]
    /\ \E l1 \in listings1, l2 \in listings2, p \in pages :
         provider = [list |-> <<l1, l2>>, page |-> p]
    /\ pc = "start"
    /\ video_id = <<>>
    /\ available = <<>>
    /\ languages = <<>>
    /\ transcript = NoTranscript
    /\ output_text = <<>>
    /\ extension = <<>>
    /\ cleaned_text = NoText
    /\ title = <<>>
    /\ stdout = <<>>
    /\ files = <<>>
    /\ calls = <<>>
    /\ run = 1
    /\ prev = [pc |-> "none", stdout |-> <<>>, files |-> <<>>, calls |-> <<>>]
    /\ text = <<>>
    /\ passes = <<>>

FetchOutcomes == {FetchFails, FetchOk(<<>>), FetchOk(Hi), FetchOk(Music)}

Listings ==
    {ListFails, Listed(<<>>)}
    \cup {Listed(<<French(FALSE, f)>>) : f \in {FetchFails, FetchOk(Oui)}}
    \cup {Listed(<<French(FALSE, f), English(TRUE, e)>>) :
            f \in {FetchFails, FetchOk(Oui)}, e \in FetchOutcomes}

Init ==
    MainInit({WatchUrl, BadUrl}, AllFlags, Langs,
             {ListFails, Listed(<<French(FALSE, FetchOk(Oui)),
                                  English(TRUE, FetchOk(Hi))>>)},
             Listings, {PageFails, NoTitlePage, TitlePage})

Spec == Init /\ [][Next]_vars

-----------------------------------------------------------------------------
(* Properties of a run of main                                             *)

Terminated == pc \in {"done", "crashed"}

Ops == [i \in DOMAIN calls |-> calls[i].op]

Count(op) == Len(SelectSeq(calls, LAMBDA c : c.op = op))

IsPrefix(a, b) == Len(a) <= Len(b) /\ a = SubSeq(b, 1, Len(a))

\* the identifier could not be extracted: main is past its first step and
\* holds no video_id
NoIdentifier == pc # "start" /\ video_id = <<>>

\* the selector has run and main holds no transcript
NoTranscriptObtained == Count("list") = 2 /\ ~Truthy(transcript)

LastMsg == IF stdout = <<>> THEN "" ELSE stdout[Len(stdout)].msg

\* C3: when the identifier cannot be extracted or no transcript is obtained,
\* main prints a diagnostic and returns normally, opens no file and makes no
\* title request; a file is written only after both have succeeded.
C3_NoOutputWithoutTranscript ==
    /\ NoIdentifier =>
         /\ pc = "done"
         /\ LastMsg = "Could not extract video ID from URL"
         /\ files = <<>>
         /\ Count("title") = 0
    /\ NoTranscriptObtained =>
         /\ pc = "done"
         /\ LastMsg = "No subtitles/transcript available."
         /\ files = <<>>
         /\ Count("title") = 0
    /\ files # <<>> => (video_id # <<>> /\ Truthy(transcript))

\* a run with --save whose selector returned None has ended without a file
C3_Witness ==
    /\ pc = "done"
    /\ args.save
    /\ Count("list") = 2
    /\ transcript.is_none
    /\ files = <<>>

PageHasTitle(html) == \E i \in 1..Len(html) : TitleEnd(html, i) > 0

TitleLookupFailed ==
    provider.page.raised \/ ~PageHasTitle(provider.page.text)

\* C4: in a run with --save that has obtained a transcript, a failure of the
\* title lookup (the request fails, or the page has no <title>) is not fatal:
\* main ends without an unhandled exception and has written the output file,
\* named with the bare video identifier as its title.
C4_TitleFailureNonFatal ==
    (/\ Terminated
     /\ args.save
     /\ Truthy(transcript)
     /\ TitleLookupFailed)
    => /\ pc = "done"
       /\ files # <<>>
       /\ files[1].name = build_safe_filename(video_id, video_id, extension, FALSE)
       /\ files[1].content = output_text

\* C5: a run with --save, --clean and --format txt that obtains a transcript
\* and returns has written two files, the original "{title} ({id}).txt" and
\* then the cleaned "{title} ({id})_cleaned.txt", whatever the transcript
\* (also when the cleaned text is empty); with --format srt only
\* "{title} ({id}).srt" is written.
C5_SavedFiles ==
    (pc = "done" /\ args.save /\ Truthy(transcript)) =>
       IF args.format = "txt" /\ args.clean
       THEN /\ Len(files) = 2
            /\ files[1] = [name |-> build_safe_filename(title, video_id, TXT, FALSE),
                           content |-> output_text]
            /\ files[2] = [name |-> build_safe_filename(title, video_id, TXT, TRUE),
                           content |-> clean_transcript_text(output_text)]
       ELSE /\ Len(files) = 1
            /\ files[1] = [name |-> build_safe_filename(title, video_id, extension,
                                                        FALSE),
                           content |-> output_text]

\* C6 as claimed: in a run of main the tracks are enumerated exactly once,
\* a track is fetched at most once, after the enumeration, and at most one
\* title request follows, made only with --save.
C6_ListedOnce ==
    /\ Count("list") <= 1
    /\ (Terminated /\ video_id # <<>>) => Count("list") = 1
    /\ IsPrefix(Ops, <<"list", "fetch", "title">>)
    /\ Count("title") > 0 => args.save

\* C6: in a run of main that extracts an identifier the tracks are enumerated
\* exactly twice (for the printed listing, and again by the selector) and in
\* a run that does not, never; a track is fetched at most once, after both
\* enumerations; at most one title request follows, made only with --save;
\* no call is repeated beyond that.
C6_NetworkCalls ==
    /\ IsPrefix(Ops, <<"list", "list", "fetch", "title">>)
    /\ (Terminated /\ video_id # <<>>) => Count("list") = 2
    /\ (Terminated /\ video_id = <<>>) => calls = <<>>
    /\ Count("title") > 0 => args.save

\* a run that made every call it can make
C6_Witness ==
    /\ pc = "done"
    /\ Ops = <<"list", "list", "fetch", "title">>
    /\ files # <<>>

-----------------------------------------------------------------------------
(* The selector, over every track list up to a length                      *)

MaxTracks == 2

RECURSIVE SeqsUpTo(_, _)
SeqsUpTo(S, n) ==
    IF n = 0 THEN {<<>>}
    ELSE LET shorter == SeqsUpTo(S, n - 1)
         IN shorter \cup {Append(q, x) : q \in {r \in shorter : Len(r) = n - 1},
                                         x \in S}

TrackPool ==
    {French(g, f) : g \in BOOLEAN, f \in {FetchFails, FetchOk(Oui)}}
    \cup {English(g, f) : g \in BOOLEAN, f \in {FetchFails, FetchOk(Hi)}}
    \cup {German(g, f) : g \in BOOLEAN, f \in {FetchFails, FetchOk(Music)}}

SelectInit ==
    MainInit({WatchUrl},
             {f \in AllFlags : ~f.timestamps /\ f.clean /\ f.format = "txt"},
             DefaultLang,
             {ListFails},
             {ListFails} \cup {Listed(ts) : ts \in SeqsUpTo(TrackPool, MaxTracks)},
             {NoTitlePage})

SelectSpec == SelectInit /\ [][Next]_vars

\* the listing the selector works on, and the track it had fetched
SelectorListing == provider.list[2]

Fetched == SelectSeq(calls, LAMBDA c : c.op = "fetch")

SelectorRan == Count("list") = 2

IsEnglish(t) ==
    \E k \in 1..(Len(t.language_code) - 1) :
       t.language_code[k] = "e" /\ t.language_code[k + 1] = "n"

\* track i is the one the three-tier policy names
PolicyNames(ts, i) ==
    \/ /\ IsEnglish(ts[i])
       /\ \A j \in 1..(i - 1) : ~IsEnglish(ts[j])
    \/ /\ \A j \in DOMAIN ts : ~IsEnglish(ts[j])
       /\ ~ts[i].is_generated
       /\ \A j \in 1..(i - 1) : ts[j].is_generated
    \/ /\ \A j \in DOMAIN ts : ~IsEnglish(ts[j]) /\ ts[j].is_generated
       /\ i = 1

\* C1: once the selector has run on a listed, non-empty track list, exactly
\* one track has been fetched and it is the one the policy names: the first
\* track whose code contains "en"; with none, the first manual track; with
\* none, the first generated track.  For [fr manual, en-US generated] it is
\* the second.
C1_ThreeTierPolicy ==
    (SelectorRan /\ ~SelectorListing.raised /\ SelectorListing.tracks # <<>>) =>
       LET ts == SelectorListing.tracks
       IN /\ Len(Fetched) = 1
          /\ Fetched[1].index \in DOMAIN ts
          /\ PolicyNames(ts, Fetched[1].index)
          /\ (/\ Len(ts) = 2
              /\ ts[1].language_code = <<"f", "r">> /\ ~ts[1].is_generated
              /\ ts[2].language_code = <<"e", "n", "-", "U", "S">>
              /\ ts[2].is_generated)
             => Fetched[1].index = 2

\* the selector ran on [fr manual, en-US generated] and fetched the second
C1_Witness ==
    /\ SelectorRan
    /\ ~SelectorListing.raised
    /\ Len(SelectorListing.tracks) = 2
    /\ SelectorListing.tracks[1].language_code = <<"f", "r">>
    /\ ~SelectorListing.tracks[1].is_generated
    /\ SelectorListing.tracks[2].language_code = <<"e", "n", "-", "U", "S">>
    /\ SelectorListing.tracks[2].is_generated
    /\ Len(Fetched) = 1
    /\ Fetched[1].index = 2

SomeFetchSucceeds(ts) == \E i \in DOMAIN ts : ~ts[i].fetch.raised

\* C2 as claimed: the selector returns None if and only if the track list is
\* empty or cannot be listed, or the fetch of every track fails; when the
\* fetch of at least one listed track succeeds the result is not None.
C2_NoneOnlyIfAllFail ==
    SelectorRan =>
       (transcript.is_none <=>
          \/ SelectorListing.raised
          \/ ~SomeFetchSucceeds(SelectorListing.tracks))

\* C2: the selector returns None if and only if the track list is empty or
\* cannot be listed, or the one fetch it attempts, that of the track the
\* policy names, fails; otherwise it returns the segments of that track.
C2_NoneIffChosenFetchFails ==
    SelectorRan =>
       LET ts == SelectorListing.tracks
       IN IF SelectorListing.raised \/ ts = <<>>
          THEN transcript.is_none
          ELSE \E i \in DOMAIN ts :
                  /\ PolicyNames(ts, i)
                  /\ transcript.is_none <=> ts[i].fetch.raised
                  /\ ~transcript.is_none =>
                       transcript.segments = ts[i].fetch.segments

\* the chosen track could not be fetched, another one could, and the
\* selector returned None
C2_Witness ==
    /\ SelectorRan
    /\ ~SelectorListing.raised
    /\ Len(Fetched) = 1
    /\ SelectorListing.tracks[Fetched[1].index].fetch.raised
    /\ SomeFetchSucceeds(SelectorListing.tracks)
    /\ transcript.is_none

-----------------------------------------------------------------------------
(* The identifier, over every URL made of a few pieces                     *)

MaxPieces == 4

UrlPieces ==
    { <<"/">>, <<"?", "v", "=">>, <<"w", "a", "t", "c", "h">>, VideoId,
      <<"a", "t", "t", "r", "i", "b", "u", "t", "i", "o", "n">> }

Urls == {Concat(ps) : ps \in SeqsUpTo(UrlPieces, MaxPieces)}

UrlInit ==
    MainInit(Urls,
             {f \in AllFlags : ~f.timestamps /\ f.clean /\ f.format = "txt"},
             DefaultLang,
             {ListFails},
             {Listed(<<English(TRUE, FetchOk(Hi))>>)},
             {NoTitlePage})

UrlSpec == UrlInit /\ [][Next]_vars

\* eleven identifier characters from position j of the URL
IdRun(url, j) ==
    /\ j + ID_LEN - 1 <= Len(url)
    /\ \A k \in 0..(ID_LEN - 1) : url[j + k] \in IdChars

\* the URL has "/X" at i, or "v=X" at i
SlashAt(url, i) == url[i] = "/" /\ IdRun(url, i + 1)

VEqualsAt(url, i) ==
    i < Len(url) /\ url[i] = "v" /\ url[i + 1] = "=" /\ IdRun(url, i + 2)

OccursAt(url, i) == SlashAt(url, i) \/ VEqualsAt(url, i)

\* the X of the occurrence at i
XAt(url, i) ==
    IF SlashAt(url, i) THEN SubSeq(url, i + 1, i + ID_LEN)
    ELSE SubSeq(url, i + 2, i + 1 + ID_LEN)

NoOccurrence(url) == \A i \in 1..Len(url) : ~OccursAt(url, i)

Rejected ==
    /\ pc = "done"
    /\ video_id = <<>>
    /\ stdout = <<Msg("Could not extract video ID from URL", <<>>)>>
    /\ calls = <<>>

\* C9 as claimed: for every X that follows "v=" or "/" in the URL, the
\* identifier main holds is X; a URL with no such X is rejected with a
\* message and an early return.
C9_EveryOccurrence ==
    pc # "start" =>
       /\ \A i \in 1..Len(args.url) :
            OccursAt(args.url, i) => video_id = XAt(args.url, i)
       /\ NoOccurrence(args.url) => Rejected

\* C9: the identifier main holds is the X of the leftmost "v=X" or "/X" of
\* the URL; a URL with no such X is rejected with a message and an early
\* return.
C9_LeftmostOccurrence ==
    pc # "start" =>
       IF NoOccurrence(args.url) THEN Rejected
       ELSE \E i \in 1..Len(args.url) :
               /\ OccursAt(args.url, i)
               /\ \A j \in 1..(i - 1) : ~OccursAt(args.url, j)
               /\ video_id = XAt(args.url, i)

\* a URL with two different candidates, after both separators, and main
\* holds the one on the left
C9_Witness ==
    /\ pc # "start"
    /\ \E i, j \in 1..Len(args.url) :
         /\ i < j
         /\ SlashAt(args.url, i)
         /\ VEqualsAt(args.url, j)
         /\ XAt(args.url, i) # XAt(args.url, j)
         /\ video_id = XAt(args.url, i)

-----------------------------------------------------------------------------
(* The subtitle formatter, over every transcript up to a length            *)

MaxSegs == 2

SegPool ==
    {Seg(s, d, t) : s \in {0, 1500, 3723004}, d \in {2250, 56500},
                    t \in { <<"H", "e", "l", "l", "o">>, <<"a", "\n", "b">> }}

SrtInit ==
    MainInit({WatchUrl},
             {f \in AllFlags : ~f.timestamps /\ f.clean},
             DefaultLang,
             {ListFails},
             {Listed(<<English(TRUE, FetchOk(segs))>>) :
                segs \in SeqsUpTo(SegPool, MaxSegs)},
             {NoTitlePage})

SrtSpec == SrtInit /\ [][Next]_vars

\* reading a decimal numeral back
DigitValue(c) == (CHOOSE i \in DOMAIN Digits : Digits[i] = c) - 1

IsNumeral(s) == s # <<>> /\ \A i \in DOMAIN s : s[i] \in Range(Digits)

RECURSIVE NumeralValue(_)
NumeralValue(s) ==
    IF s = <<>> THEN 0
    ELSE 10 * NumeralValue(SubSeq(s, 1, Len(s) - 1)) + DigitValue(s[Len(s)])

\* the milliseconds that the twelve characters HH:MM:SS,mmm at p of s stand
\* for, -1 when they are not of that form
StampValue(s, p) ==
    IF /\ p + 11 <= Len(s)
       /\ IsNumeral(SubSeq(s, p, p + 1)) /\ s[p + 2] = ":"
       /\ IsNumeral(SubSeq(s, p + 3, p + 4)) /\ s[p + 5] = ":"
       /\ IsNumeral(SubSeq(s, p + 6, p + 7)) /\ s[p + 8] = ","
       /\ IsNumeral(SubSeq(s, p + 9, p + 11))
       /\ NumeralValue(SubSeq(s, p + 3, p + 4)) < 60
       /\ NumeralValue(SubSeq(s, p + 6, p + 7)) < 60
    THEN ((NumeralValue(SubSeq(s, p, p + 1)) * 60
           + NumeralValue(SubSeq(s, p + 3, p + 4))) * 60
          + NumeralValue(SubSeq(s, p + 6, p + 7))) * 1000
         + NumeralValue(SubSeq(s, p + 9, p + 11))
    ELSE -1

\* where the cue for segment k ends when s holds it from p on (the index k, a
\* newline, the range from start to start + duration, a newline, the text, a
\* newline); 0 when s does not
CueEnd(s, p, k, seg) ==
    LET nl == Find(s, <<"\n">>, p)
        q == nl + 1
        t == q + 30
        e == t + Len(seg.text)
    IN IF /\ nl > p
          /\ IsNumeral(SubSeq(s, p, nl - 1))
          /\ NumeralValue(SubSeq(s, p, nl - 1)) = k
          /\ StampValue(s, q) = seg.start
          /\ StartsAt(s, q + 12, <<" ", "-", "-", ">", " ">>)
          /\ StampValue(s, q + 17) = seg.start + seg.duration
          /\ StartsAt(s, q + 29, <<"\n">>)
          /\ StartsAt(s, t, seg.text)
          /\ StartsAt(s, e, <<"\n">>)
       THEN e
       ELSE 0

\* s from p on is the cues of segments k, k+1, ... in order, one newline
\* between two cues, and nothing else
RECURSIVE CuesFrom(_, _, _, _)
CuesFrom(s, p, segs, k) ==
    IF k > Len(segs) THEN p = Len(s) + 1
    ELSE LET e == CueEnd(s, p, k, segs[k])
         IN /\ e > 0
            /\ IF k = Len(segs) THEN e = Len(s)
               ELSE StartsAt(s, e + 1, <<"\n">>)
                    /\ CuesFrom(s, e + 2, segs, k + 1)

Formatted == pc \in {"title", "print", "write_original", "write_cleaned", "done"}
               /\ Truthy(transcript)

-----------------------------------------------------------------------------
(* The cleaner, applied to a text and again to its own result              *)

MaxTokens == 5

CleanTokens ==
    { <<"t", "h", "e">>, <<"T", "h", "e">>, <<"c", "a", "t">>, <<"u", "m">>,
      <<" ">>, <<"\n">>, <<"[", "M", "u", "s", "i", "c", "]">> }

CleanInputs == {Concat(ts) : ts \in SeqsUpTo(CleanTokens, MaxTokens)}

CleanInit ==
    /\ text \in CleanInputs
    /\ passes = <<>>
    /\ args = [url |-> <<>>, timestamps |-> FALSE, save |-> FALSE,
               lang |-> <<"e", "n">>, format |-> "txt", clean |-> TRUE]
    /\ provider = [list |-> <<ListFails, ListFails>>, page |-> PageFails]
    /\ pc = "clean"
    /\ video_id = <<>>
    /\ available = <<>>
    /\ languages = <<>>
    /\ transcript = NoTranscript
    /\ output_text = <<>>
    /\ extension = <<>>
    /\ cleaned_text = NoText
    /\ title = <<>>
    /\ stdout = <<>>
    /\ files = <<>>
    /\ calls = <<>>
    /\ run = 1
    /\ prev = [pc |-> "none", stdout |-> <<>>, files |-> <<>>, calls |-> <<>>]

\* clean_transcript_text applied to the text, then to what it returned
CleanPass ==
    /\ pc = "clean"
    /\ Len(passes) < 2
    /\ passes' = Append(passes,
                        clean_transcript_text(IF passes = <<>> THEN text
                                              ELSE passes[Len(passes)]))
    /\ UNCHANGED <<mainVars, text>>

CleanNext == CleanPass

CleanSpec == CleanInit /\ [][CleanNext]_vars

\* C8: cleaning is idempotent: cleaning a cleaned text gives it back, for
\* every text of words, filler words, whitespace, newlines and bracketed
\* annotations.
C8_Idempotent == Len(passes) = 2 => passes[2] = passes[1]

====
